---- MODULE Spec2Model ----
(***************************************************************************)
(* Secret Santa (sequential reveal): a model of src/app.py.                *)
(*                                                                         *)
(* The program is a Streamlit script.  Every user event (a click on a      *)
(* button that is on screen, or a plain rerun) runs the script from its    *)
(* first line to its end or to the first st.stop()/st.rerun(); st.button   *)
(* returns True only in the run its click started, and only if that run    *)
(* reaches the call.  The state that outlives a run is st.session_state;   *)
(* what the user sees between two runs is the page the last run rendered.  *)
(***************************************************************************)
EXTENDS Integers, Sequences, FiniteSets, TLC

VARIABLES
    names,          \* module global `names` (the roster)
    blocked_pairs,  \* module global `blocked_pairs` (the forbidden set)
    pc,             \* "generate": inside generate_valid_pairs' loop;
                    \* "returned": generate_valid_pairs has returned;
                    \* "idle": a script run has ended, the page is on screen
    attempt,        \* loop variable of `for attempt in range(10000)`
    result,         \* value returned by generate_valid_pairs
    session_state,  \* st.session_state
    page,           \* what the last completed script run rendered
    trigger         \* the event the current / last script run handles

vars == <<names, blocked_pairs, pc, attempt, result, session_state, page, trigger>>

-----------------------------------------------------------------------------
(* Bounds of the model *)

\* stands for the 10000 of `range(10000)`
MaxAttempts == 3
\* longest roster drawn for the Matcher on its own
MaxRoster == 3
\* largest forbidden set drawn for the Matcher on its own
MaxBlocked == 2

-----------------------------------------------------------------------------
(* Data *)

SourceNames == <<"Ariel", "Kurt", "Scott", "Linda", "Daniel">>

last_year_gifts ==
    << <<"Kurt", "Ariel">>, <<"Ariel", "Kurt">>, <<"Scott", "Ariel">>,
       <<"Linda", "Scott">>, <<"Daniel", "Linda">>, <<"Ariel", "Daniel">> >>

SourceBlocked == {last_year_gifts[i] : i \in 1..Len(last_year_gifts)}

\* Python's None and a returned dict, as one type.  A dict is the sequence of
\* its items in insertion order, each item <<key, value>>.
None == [none |-> TRUE, items |-> <<>>]
Dict(items) == [none |-> FALSE, items |-> items]

Keys(items) == {items[i][1] : i \in 1..Len(items)}
Values(items) == {items[i][2] : i \in 1..Len(items)}

\* d[k] for a key the dict holds
Lookup(items, k) == items[CHOOSE i \in 1..Len(items) : items[i][1] = k][2]

\* d[k] = v : a new key is appended, an existing key keeps its position
DictSet(items, k, v) ==
    IF k \in Keys(items)
    THEN [i \in 1..Len(items) |-> IF items[i][1] = k THEN <<k, v>> ELSE items[i]]
    ELSE Append(items, <<k, v>>)

RECURSIVE DictZipUpTo(_, _, _)
DictZipUpTo(ks, vs, n) ==
    IF n = 0 THEN <<>>
    ELSE CHOOSE d \in {DictSet(prev, ks[n], vs[n]) :
                          prev \in {DictZipUpTo(ks, vs, n - 1)}} : TRUE

Min(a, b) == IF a < b THEN a ELSE b

\* the two arguments of zip exchanged
DictZipSwapped(ks, vs) == DictZipUpTo(vs, ks, Min(Len(ks), Len(vs)))

\* dict(zip(ks, vs))
DictZip(ks, vs) == DictZipUpTo(ks, vs, Min(Len(ks), Len(vs)))

-----------------------------------------------------------------------------
(* Pairing generator: generate_valid_pairs *)

\* a rotation by a random offset instead of a shuffle
ShufflesRotations(seq) ==
    {[i \in 1..Len(seq) |-> seq[((i - 1 + k) % Len(seq)) + 1]] :
        k \in 0..(Len(seq) - 1)}

\* a draw with replacement instead of a shuffle
ShufflesWithReplacement(seq) ==
    {[i \in 1..Len(seq) |-> seq[p[i]]] : p \in [1..Len(seq) -> 1..Len(seq)]}

\* shuffled = names.copy(); random.shuffle(shuffled): any rearrangement
Shuffles(seq) ==
    {[i \in 1..Len(seq) |-> seq[p[i]]] :
        p \in {q \in [1..Len(seq) -> 1..Len(seq)] :
                 \A i, j \in 1..Len(seq) : q[i] = q[j] => i = j}}

\* the validation loop without the blocked-pairs test
RECURSIVE is_valid_from_noblocked(_, _, _)
is_valid_from_noblocked(items, blocked, i) ==
    IF i > Len(items) THEN TRUE
    ELSE IF items[i][1] = items[i][2] THEN FALSE
    ELSE is_valid_from_noblocked(items, blocked, i + 1)

\* the validation loop without the self-gifting test
RECURSIVE is_valid_from_noself(_, _, _)
is_valid_from_noself(items, blocked, i) ==
    IF i > Len(items) THEN TRUE
    ELSE IF <<items[i][1], items[i][2]>> \in blocked THEN FALSE
    ELSE is_valid_from_noself(items, blocked, i + 1)

\* the validation loop with a blocked pair blocking both directions
RECURSIVE is_valid_from_symmetric(_, _, _)
is_valid_from_symmetric(items, blocked, i) ==
    IF i > Len(items) THEN TRUE
    ELSE IF items[i][1] = items[i][2] THEN FALSE
    ELSE IF \/ <<items[i][1], items[i][2]>> \in blocked
            \/ <<items[i][2], items[i][1]>> \in blocked THEN FALSE
    ELSE is_valid_from_symmetric(items, blocked, i + 1)

\* for giver, receiver in pairs.items(): ... break on the first bad pair
RECURSIVE is_valid_from(_, _, _)
is_valid_from(items, blocked, i) ==
    IF i > Len(items) THEN TRUE
    ELSE IF items[i][1] = items[i][2] THEN FALSE
    ELSE IF <<items[i][1], items[i][2]>> \in blocked THEN FALSE
    ELSE is_valid_from(items, blocked, i + 1)

is_valid(items, blocked) == is_valid_from(items, blocked, 1)

\* a shuffle of the list itself
AfterShuffleInPlace(ns, shuffled) == shuffled

\* `names` after shuffled = names.copy(); random.shuffle(shuffled): the
\* shuffle rearranges the copy, the list itself keeps its order
AfterShuffle(ns, shuffled) == ns

\* one iteration of the loop that never counts
AttemptNoCount ==
    /\ pc = "generate"
    /\ \E shuffled \in Shuffles(names) :
         LET pairs == DictZip(names, shuffled) IN
         IF is_valid(pairs, blocked_pairs)
         THEN /\ result' = Dict(pairs)
              /\ pc' = "returned"
              /\ UNCHANGED attempt
         ELSE UNCHANGED <<result, pc, attempt>>
    /\ UNCHANGED <<names, blocked_pairs, session_state, page, trigger>>

\* one iteration of `for attempt in range(10000)`
Attempt ==
    /\ pc = "generate"
    /\ attempt < MaxAttempts
    /\ \E shuffled \in Shuffles(names) :
         LET pairs == DictZip(names, shuffled) IN
         /\ names' = AfterShuffle(names, shuffled)
         /\ IF is_valid(pairs, blocked_pairs)
            THEN /\ result' = Dict(pairs)
                 /\ pc' = "returned"
                 /\ UNCHANGED attempt
            ELSE /\ attempt' = attempt + 1
                 /\ UNCHANGED <<result, pc>>
    /\ UNCHANGED <<blocked_pairs, session_state, page, trigger>>

\* the loop has run out: return None
Exhausted ==
    /\ pc = "generate"
    /\ attempt >= MaxAttempts
    /\ result' = None
    /\ pc' = "returned"
    /\ UNCHANGED <<names, blocked_pairs, attempt, session_state, page, trigger>>

-----------------------------------------------------------------------------
(* DOCX export: generate_docx *)

Paragraph(giver, receiver) == <<giver, "->", receiver>>

\* the paragraphs of the document, one per item of pairs.items(), in order
generate_docx(items) ==
    [i \in 1..Len(items) |-> Paragraph(items[i][1], items[i][2])]

-----------------------------------------------------------------------------
(* Session state *)

AllKeys == {"pairs", "step", "revealed", "initialized"}

\* a session state holding no key (a deleted key's value is not kept)
EmptySession ==
    [keys |-> {}, pairs |-> None, step |-> 0, revealed |-> FALSE,
     initialized |-> FALSE]

\* a setup that retries whenever the stored pairing is None
NeedsSetupOrNone(ss) == "pairs" \notin ss.keys \/ ss.pairs.none

\* a setup without its guard: every run generates
NeedsSetupAlways(ss) == TRUE

\* if "pairs" not in st.session_state
NeedsSetup(ss) == "pairs" \notin ss.keys

\* a setup that stores the pairing and leaves step and revealed alone
SetupPairsOnly(ss, res) ==
    [ss EXCEPT !.keys = ss.keys \cup {"pairs", "initialized"},
               !.pairs = res, !.initialized = TRUE]

\* the body of the if: pairs, step, revealed, initialized
Setup(ss, res) ==
    [keys |-> AllKeys, pairs |-> res, step |-> 0, revealed |-> FALSE,
     initialized |-> TRUE]

\* for key in list(st.session_state.keys()): del st.session_state[key]
ClearSessionState(ss) == EmptySession

-----------------------------------------------------------------------------
(* UI: what one run of the script renders and does *)

NoWidget == ""
NotShown == ""

BlankPage ==
    [header |-> NotShown, recipient |-> NotShown, next_person |-> NotShown,
     last |-> FALSE, error |-> FALSE, success |-> FALSE, docx |-> <<>>,
     buttons |-> {}]

\* the sidebar is rendered by every run that gets past the setup
SidebarPage == [BlankPage EXCEPT !.buttons = {"reset"}]

\* st.error(...); st.stop()
ErrorView == [SidebarPage EXCEPT !.error = TRUE]

\* st.success(...); generate_docx; st.download_button; st.stop()
DoneView(ss) ==
    [SidebarPage EXCEPT !.success = TRUE,
                        !.docx = generate_docx(ss.pairs.items),
                        !.buttons = {"reset", "download"}]

\* not revealed: the header and the reveal button
HiddenView(ss) ==
    [SidebarPage EXCEPT !.header = names[ss.step + 1],
                        !.buttons = {"reset", "reveal"}]

\* revealed: the header, the recipient, who is next, the next button
RevealedView(ss) ==
    [SidebarPage EXCEPT
        !.header = names[ss.step + 1],
        !.recipient = Lookup(ss.pairs.items, names[ss.step + 1]),
        !.next_person = IF ss.step + 1 < Len(names) THEN names[ss.step + 2]
                        ELSE NotShown,
        !.last = ~(ss.step + 1 < Len(names)),
        !.buttons = {"reset", "next"}]

\* if st.button("Reveal who you're gifting to"): revealed = True
RevealButton(ss, widget) ==
    IF widget = "reveal" THEN [ss EXCEPT !.revealed = TRUE] ELSE ss

\* a next button that skips a participant
NextButtonSkip(ss, widget) ==
    IF widget = "next"
    THEN [ss EXCEPT !.revealed = FALSE, !.step = @ + 2]
    ELSE ss

\* a next button that hides and stays on the same participant
NextButtonNoStep(ss, widget) ==
    IF widget = "next" THEN [ss EXCEPT !.revealed = FALSE] ELSE ss

\* a next button that forgets to hide
NextButtonKeepRevealed(ss, widget) ==
    IF widget = "next" THEN [ss EXCEPT !.step = @ + 1] ELSE ss

\* if st.button("Next person (hide this)"): revealed = False; step += 1
NextButton(ss, widget) ==
    IF widget = "next"
    THEN [ss EXCEPT !.revealed = FALSE, !.step = @ + 1]
    ELSE ss

\* both buttons handled whatever the branch
ActiveViewUnguarded(ss, widget) ==
    [ss |-> NextButton(RevealButton(ss, widget), widget),
     page |-> IF ss.revealed THEN RevealedView(ss) ELSE HiddenView(ss),
     rerun |-> FALSE]

\* the active person view: one branch of the if runs, with its own button
ActiveView(ss, widget) ==
    IF ~ss.revealed
    THEN [ss |-> RevealButton(ss, widget), page |-> HiddenView(ss),
          rerun |-> FALSE]
    ELSE [ss |-> NextButton(ss, widget), page |-> RevealedView(ss),
          rerun |-> FALSE]

\* the script from `pairs = st.session_state.pairs` to its end, run on
\* session state ss with `widget` the button whose click started the run.
\* ss: the session state the run leaves; page: what it rendered;
\* rerun: it ended in st.rerun()
ScriptBody(ss, widget) ==
    IF widget = "reset"
    THEN [ss |-> ClearSessionState(ss), page |-> SidebarPage, rerun |-> TRUE]
    ELSE IF ss.pairs.none
    THEN [ss |-> ss, page |-> ErrorView, rerun |-> FALSE]
    ELSE IF ss.step >= Len(names)
    THEN [ss |-> ss, page |-> DoneView(ss), rerun |-> FALSE]
    ELSE ActiveView(ss, widget)

-----------------------------------------------------------------------------
(* Script runs *)

\* the run enters generate_valid_pairs; the old page stays on screen
EnterGenerate(ss) ==
    /\ pc' = "generate"
    /\ attempt' = 0
    /\ result' = None
    /\ session_state' = ss
    /\ UNCHANGED page

\* the run ends and its page replaces the old one
EndRun(r) ==
    /\ pc' = "idle"
    /\ session_state' = r.ss
    /\ page' = r.page
    /\ UNCHANGED <<attempt, result>>

\* a script run from its first line, started by event ev with widget set
ScriptRun(ev, widget) ==
    /\ pc = "idle"
    /\ trigger' = ev
    /\ UNCHANGED <<names, blocked_pairs>>
    /\ IF NeedsSetup(session_state)
       THEN EnterGenerate(session_state)
       ELSE LET r == ScriptBody(session_state, widget) IN
            IF ~r.rerun THEN EndRun(r)
            \* st.rerun(): the script starts over, no widget set
            ELSE IF NeedsSetup(r.ss) THEN EnterGenerate(r.ss)
            ELSE EndRun(ScriptBody(r.ss, NoWidget))

\* the user clicks a button that is on screen
Click == \E b \in page.buttons : ScriptRun(b, b)

\* the user reruns the script without touching a widget
Rerun == ScriptRun("rerun", NoWidget)

\* generate_valid_pairs has returned into the setup: the rest of that run
FinishSetup ==
    /\ pc = "returned"
    /\ EndRun(ScriptBody(Setup(session_state, result), NoWidget))
    /\ UNCHANGED <<names, blocked_pairs, trigger>>

-----------------------------------------------------------------------------
(* The application: one session on the source's data *)

Init ==
    /\ names = SourceNames
    /\ blocked_pairs = SourceBlocked
    /\ pc = "generate"
    /\ attempt = 0
    /\ result = None
    /\ session_state = EmptySession
    /\ page = BlankPage
    /\ trigger = "start"

Next == Attempt \/ Exhausted \/ FinishSetup \/ Click \/ Rerun

Spec == Init /\ [][Next]_vars

-----------------------------------------------------------------------------
(* The Matcher on its own, called again and again on drawn inputs *)

Prefix(seq, n) == [i \in 1..n |-> seq[i]]

Rosters == {Prefix(SourceNames, n) : n \in 0..Min(MaxRoster, Len(SourceNames))}

Range(seq) == {seq[i] : i \in 1..Len(seq)}

ForbiddenSets(roster) ==
    {B \in SUBSET (Range(roster) \X Range(roster)) : Cardinality(B) <= MaxBlocked}

MatcherInit ==
    /\ \/ /\ names \in Rosters
          /\ blocked_pairs \in ForbiddenSets(names)
       \/ /\ names = SourceNames
          /\ blocked_pairs = SourceBlocked
    /\ pc = "generate"
    /\ attempt = 0
    /\ result = None
    /\ session_state = EmptySession
    /\ page = BlankPage
    /\ trigger = "start"

\* the next call of generate_valid_pairs
Call ==
    /\ pc = "returned"
    /\ pc' = "generate"
    /\ attempt' = 0
    /\ result' = None
    /\ UNCHANGED <<names, blocked_pairs, session_state, page, trigger>>

MatcherNext == Attempt \/ Exhausted \/ Call

MatcherSpec == MatcherInit /\ [][MatcherNext]_vars

-----------------------------------------------------------------------------
(* The Matcher's contract *)

N == Len(names)

Returned == pc = "returned" /\ ~result.none

Failure == pc = "returned" /\ result.none

\* some rearrangement of the roster passes the validation
ValidExists ==
    \E shuffled \in Shuffles(names) :
        is_valid(DictZip(names, shuffled), blocked_pairs)

\* C1: an Assignment the Matcher returns gives no participant to themself and
\* contains no forbidden directed pair
C1_NoSelfNoForbidden ==
    Returned =>
        \A i \in 1..N :
            LET p == names[i]
                r == Lookup(result.items, p)
            IN  r # p /\ <<p, r>> \notin blocked_pairs

\* the Matcher has returned an Assignment for the source's roster and pairs
C1_Witness ==
    Returned /\ names = SourceNames /\ blocked_pairs = SourceBlocked

\* C2: an Assignment the Matcher returns is a bijection over the roster: its
\* givers are exactly the roster, each once, and every participant is the
\* receiver of exactly one giver
C2_Bijection ==
    Returned =>
        /\ Len(result.items) = N
        /\ Keys(result.items) = Range(names)
        /\ \A p \in Range(names) :
               Cardinality({i \in 1..Len(result.items) :
                               result.items[i][2] = p}) = 1

\* the Matcher has returned an Assignment for a roster of three or more
C2_Witness == Returned /\ N >= 3 /\ blocked_pairs # {}

\* C3: a call makes at most MaxAttempts attempts and returns: every step of
\* the loop either returns or counts one more attempt, a step is always
\* possible, the attempt count never passes MaxAttempts, a candidate is
\* returned before the budget is spent and None exactly when it is spent;
\* with no valid assignment the call returns None
C3_Terminates ==
    /\ [](/\ attempt <= MaxAttempts
          /\ Returned => attempt < MaxAttempts
          /\ Failure => attempt = MaxAttempts
          /\ (pc = "returned" /\ ~ValidExists) => result.none
          /\ pc = "generate" => ENABLED <<Attempt \/ Exhausted>>_vars)
    /\ [][pc = "generate" =>
            \/ pc' = "returned"
            \/ pc' = "generate" /\ attempt' = attempt + 1]_vars

\* a call on a roster of two or more with no valid assignment has failed
C3_Witness == Failure /\ ~ValidExists /\ N >= 2

-----------------------------------------------------------------------------
(* The session and the reveal sequence *)

Stored == session_state.keys = AllKeys

\* the session holds a valid Assignment
Valid == Stored /\ ~session_state.pairs.none

\* the session holds the Matcher's failure
Failed == Stored /\ session_state.pairs.none

Hidden == Valid /\ ~session_state.revealed /\ session_state.step < N

Revealed == Valid /\ session_state.revealed /\ session_state.step < N

Done == Valid /\ session_state.step >= N

\* a step that handles a user event other than a reset click
NonResetRun == pc = "idle" /\ trigger' # "reset"

\* a step that handles a reset click
ResetRun == pc = "idle" /\ trigger' = "reset"

\* C4: a reset click empties the session state and enters the Matcher,
\* nothing is stored while the Matcher runs, and its return stores the new
\* result together with step = 0 and revealed = false
C4_ResetAtomic ==
    /\ [](pc # "idle" => session_state = EmptySession)
    /\ [][/\ ResetRun =>
               /\ pc' = "generate"
               /\ attempt' = 0
               /\ session_state' = EmptySession
          /\ pc = "returned" =>
               /\ pc' = "idle"
               /\ session_state'.keys = AllKeys
               /\ session_state'.pairs = result
               /\ session_state'.step = 0
               /\ ~session_state'.revealed]_vars

\* the Matcher has returned an Assignment for a reset clicked on the Done page
C4_Witness ==
    pc = "returned" /\ trigger = "reset" /\ page.success /\ ~result.none

\* C5: in Hidden(s) the page shows roster[s] and no recipient, and a
\* recipient on screen is always that of roster[step]
C5_HiddenShowsNoRecipient ==
    pc = "idle" =>
        /\ Hidden =>
             /\ page.header = names[session_state.step + 1]
             /\ page.recipient = NotShown
        /\ page.recipient # NotShown =>
             /\ Valid
             /\ session_state.step < N
             /\ page.recipient =
                  Lookup(session_state.pairs.items, names[session_state.step + 1])

\* C6: in Revealed(s) the page shows Assignment(roster[s]) and the next
\* participant, or the last-person marker
C6_RevealedShowsRecipient ==
    (pc = "idle" /\ Revealed) =>
        /\ page.recipient =
             Lookup(session_state.pairs.items, names[session_state.step + 1])
        /\ IF session_state.step + 1 < N
           THEN page.next_person = names[session_state.step + 2] /\ ~page.last
           ELSE page.last

\* C7: a next click in Hidden(s) and a reveal click in Revealed(s) change
\* nothing, and no click raises step by more than one or by one together
\* with a reveal
C7_InvalidCallsNoOp ==
    [][(pc = "idle" /\ Valid) =>
        /\ (Hidden /\ trigger' = "next") => session_state' = session_state
        /\ (Revealed /\ trigger' = "reveal") => session_state' = session_state
        /\ NonResetRun =>
             /\ session_state'.step <= session_state.step + 1
             /\ session_state'.step > session_state.step =>
                  (session_state.revealed /\ ~session_state'.revealed)
             /\ (~session_state.revealed /\ session_state'.revealed) =>
                  session_state'.step = session_state.step]_vars

\* a next click has arrived in Hidden(s): the page it leaves is the hidden one
C7_Witness ==
    /\ pc = "idle" /\ Hidden /\ trigger = "next"
    /\ page.recipient = NotShown /\ "reveal" \in page.buttons

\* reveal(): Hidden(s) to Revealed(s)
RevealStep ==
    /\ Hidden
    /\ session_state' = [session_state EXCEPT !.revealed = TRUE]

\* advance(): Revealed(s) to Hidden(s+1), or to Done when s+1 = N
AdvanceStep ==
    /\ Revealed
    /\ session_state' = [session_state EXCEPT !.revealed = FALSE,
                                              !.step = session_state.step + 1]

\* C8: a session with a valid Assignment starts in Hidden(0), and without a
\* reset its state changes only by reveal from Hidden(s) to Revealed(s) and
\* by advance from Revealed(s) to Hidden(s+1) or, from Revealed(N-1), to Done
C8_ExactPath ==
    /\ [](Valid => /\ session_state.step <= N
                   /\ session_state.step = N => ~session_state.revealed)
    /\ [][/\ (pc = "returned" /\ ~result.none) =>
                (session_state'.step = 0 /\ ~session_state'.revealed)
          /\ (NonResetRun /\ Valid) =>
                \/ session_state' = session_state
                \/ RevealStep
                \/ AdvanceStep]_vars

\* the session has just advanced from Revealed(N-1) to Done
C8_Witness == pc = "idle" /\ Done /\ trigger = "next" /\ page.last

\* C9: a failed session shows the error and only the reset button; every
\* event but a reset leaves it failed and does not enter the Matcher; a
\* reset does
C9_FailureTerminal ==
    /\ []((pc = "idle" /\ Failed) => page = ErrorView)
    /\ [][(pc = "idle" /\ Failed) =>
            /\ NonResetRun =>
                 /\ pc' = "idle"
                 /\ session_state' = session_state
                 /\ UNCHANGED <<attempt, result>>
            /\ ResetRun => (pc' = "generate" /\ attempt' = 0)]_vars

\* a failed session has been rerun
C9_Witness == pc = "idle" /\ Failed /\ trigger = "rerun"

\* C10: only a reset click enters the Matcher or changes the stored
\* Assignment; each entry ends in one return, which the session stores
C10_AssignmentFixed ==
    [][/\ NonResetRun =>
            /\ pc' = "idle"
            /\ session_state'.pairs = session_state.pairs
            /\ UNCHANGED <<attempt, result>>
       /\ (pc # "generate" /\ pc' = "generate") => ResetRun
       /\ pc = "generate" => pc' \in {"generate", "returned"}
       /\ pc = "returned" => (pc' = "idle" /\ session_state'.pairs = result)]_vars

\* a reveal, an advance and a stale click have run on a stored Assignment
C10_Witness ==
    /\ pc = "idle" /\ Valid /\ session_state.step >= 1
    /\ trigger \in {"reveal", "next", "rerun", "download"}

-----------------------------------------------------------------------------
(* Step index, export, and the Matcher's small rosters *)

\* C11: the stored step is between 0 and N; an event other than a reset
\* leaves it or raises it by one; a run on step = N renders the Done page and
\* no participant header (names[step] is not read)
C11_StepMonotonic ==
    /\ [](Stored => (0 <= session_state.step /\ session_state.step <= N))
    /\ [][(NonResetRun /\ Stored) =>
            /\ session_state'.step >= session_state.step
            /\ session_state'.step <= session_state.step + 1
            /\ (Valid /\ session_state.step >= N) => page'.header = NotShown
            /\ page'.header # NotShown =>
                 (session_state.step < N /\ page'.header = names[session_state.step + 1])
         ]_vars

\* a stale next click has run on step = N and rendered the Done page
C11_Witness ==
    /\ pc = "idle" /\ Valid /\ session_state.step = N
    /\ trigger = "next" /\ page.success

\* C12: a step that changes the stored step index leaves revealed false, and
\* the setup that stores step = 0 stores revealed = false with it
C12_RevealedFalseOnStepChange ==
    [][/\ session_state'.step # session_state.step => ~session_state'.revealed
       /\ "step" \in (session_state'.keys \ session_state.keys) =>
            (session_state'.step = 0 /\ ~session_state'.revealed)]_vars

\* an advance has just raised the step from a revealed state
C12_Witness ==
    /\ pc = "idle" /\ Valid /\ trigger = "next"
    /\ session_state.step >= 1 /\ ~session_state.revealed
    /\ page.recipient # NotShown

\* the pairs in roster order: the i-th is (roster[i], Assignment(roster[i]))
RosterOrderExport(items) ==
    [i \in 1..N |-> Paragraph(names[i], Lookup(items, names[i]))]

\* C13: a page that offers the download or holds a document belongs to a
\* Done session, and the document lists the N pairs in roster order
C13_ExportInRosterOrder ==
    (pc = "idle" /\ ("download" \in page.buttons \/ page.docx # <<>>)) =>
        /\ Done
        /\ "download" \in page.buttons
        /\ Len(page.docx) = N
        /\ page.docx = RosterOrderExport(session_state.pairs.items)

\* the Done page with its download is on screen
C13_Witness ==
    pc = "idle" /\ Done /\ "download" \in page.buttons /\ Len(page.docx) = N

\* C14: on a roster of one the Matcher never returns an Assignment
C14_SingletonFails == (N = 1 /\ pc = "returned") => result.none

\* a call on a roster of one with an empty forbidden set has failed
C14_Witness == Failure /\ N = 1 /\ blocked_pairs = {}

\* C15: on a roster [A, B] with nothing forbidden the Matcher returns
\* {A -> B, B -> A} or None
C15_PairSwapsOrFails ==
    (N = 2 /\ blocked_pairs = {} /\ pc = "returned") =>
        \/ result.none
        \/ result.items = << <<names[1], names[2]>>, <<names[2], names[1]>> >>

\* a call on a roster of two with nothing forbidden has returned the swap
C15_Witness == Returned /\ N = 2 /\ blocked_pairs = {}

-----------------------------------------------------------------------------
(* What the Matcher can return *)

\* the Assignments of the data model: roster[i] -> r[i] with r a rearrangement
\* of the roster, no participant their own receiver, no forbidden pair
ValidAssignments ==
    {[i \in 1..N |-> <<names[i], r[i]>>] :
        r \in {q \in [1..N -> Range(names)] :
                 /\ \A i, j \in 1..N : q[i] = q[j] => i = j
                 /\ \A i \in 1..N : q[i] # names[i]
                 /\ \A i \in 1..N : <<names[i], q[i]>> \notin blocked_pairs}}

\* the Assignments holding a pair B -> A whose reverse (A, B) is forbidden
ReverseOfForbidden ==
    {d \in ValidAssignments :
        \E i \in 1..N : <<d[i][2], d[i][1]>> \in blocked_pairs}

\* the attempt under way can return d
CanReturn(d) == ENABLED (Attempt /\ pc' = "returned" /\ result' = Dict(d))

\* C16: a forbidden pair (A, B) does not forbid (B, A): every attempt can
\* return each valid Assignment that contains the reverse of a forbidden pair
C16_Directional ==
    (pc = "generate" /\ attempt < MaxAttempts) =>
        \A d \in ReverseOfForbidden : CanReturn(d)

\* on the source's data the Matcher has returned Ariel -> Scott, the reverse
\* of the forbidden (Scott, Ariel)
C16_Witness ==
    /\ Returned /\ names = SourceNames /\ blocked_pairs = SourceBlocked
    /\ <<"Scott", "Ariel">> \in blocked_pairs
    /\ Lookup(result.items, "Ariel") = "Scott"

\* C17: the Matcher returns nothing but valid Assignments, and every attempt
\* can return every valid Assignment
C17_ExactlyValid ==
    /\ Returned => result.items \in ValidAssignments
    /\ (pc = "generate" /\ attempt < MaxAttempts) =>
         \A d \in ValidAssignments : CanReturn(d)

\* the Matcher has returned one of several valid Assignments, on a late attempt
C17_Witness ==
    Returned /\ Cardinality(ValidAssignments) >= 2 /\ attempt >= 1

-----------------------------------------------------------------------------
(* The session under a user who keeps acting *)

\* the user clicks the reveal button that is on screen
ClickReveal == "reveal" \in page.buttons /\ ScriptRun("reveal", "reveal")

\* the user clicks the next button that is on screen
ClickNext == "next" \in page.buttons /\ ScriptRun("next", "next")

\* a script run that has started runs to its end, and the user takes every
\* reveal or next click that stays available
LiveSpec ==
    /\ Spec
    /\ WF_vars(Attempt) /\ WF_vars(Exhausted) /\ WF_vars(FinishSetup)
    /\ WF_vars(ClickReveal) /\ WF_vars(ClickNext)

\* C18: unless the Matcher failed or the user resets, the session reaches
\* Done; in Done step = N and revealed is false, and every event but a reset
\* leaves the session state as it is and renders the Done page, which has no
\* reveal and no next button
C18_EventuallyDone ==
    /\ <>(trigger = "reset" \/ (pc = "idle" /\ (Failed \/ Done)))
    /\ [](Done => (session_state.step = N /\ ~session_state.revealed))
    /\ [][(NonResetRun /\ Done) =>
            /\ session_state' = session_state
            /\ page' = DoneView(session_state)
            /\ page'.buttons \cap {"reveal", "next"} = {}]_vars

\* a session never reset has reached Done and been rerun there
C18_Witness ==
    /\ pc = "idle" /\ Done /\ trigger = "rerun"
    /\ page = DoneView(session_state)

\* C19: no step changes the roster or the forbidden set: they are the
\* source's before and after every call of the Matcher and every reset
C19_InputsUnchanged ==
    /\ [](names = SourceNames /\ blocked_pairs = SourceBlocked)
    /\ [][names' = names /\ blocked_pairs' = blocked_pairs]_vars

\* the Matcher has returned None to the run of a reset
C19_Witness ==
    /\ pc = "returned" /\ trigger = "reset" /\ result.none
    /\ names = SourceNames

====
